---- MODULE Spec2Model ----
(***************************************************************************)
(* Model of scripts/ci/prerelease_guard.py: the pre-release stage-gate     *)
(* evaluator.  Python strings are sequences of tokens: every token is one  *)
(* character, except the stage words, which stand for their letters.       *)
(***************************************************************************)
EXTENDS Integers, Sequences, FiniteSets, TLC

VARIABLES
  repoTags,    \* the tags of the repository
  published,   \* the tags released through the guard, in order
  candidate,   \* the tag the release workflow is judging
  pc,          \* where the invocation is
  run,         \* the invocation: command line, policy file, git answers, result
  input,       \* the value handed to a function of the module
  output,      \* what the function returned
  workflows    \* release workflows running side by side

vars == <<repoTags, published, candidate, pc, run, input, output, workflows>>

---------------------------------------------------------------------------
(* Strings *)

AsciiDigits == {"0", "1", "2", "3", "4", "5", "6", "7", "8", "9"}

\* A decimal digit outside ASCII: ARABIC-INDIC DIGIT ONE
ArabicIndicOne == "u0661"

\* What \d matches in a str pattern: the Unicode decimal digits
Digits == AsciiDigits \cup {ArabicIndicOne}

DigitVal(c) ==
  CASE c = ArabicIndicOne -> 1
    [] c = "0" -> 0 [] c = "1" -> 1 [] c = "2" -> 2 [] c = "3" -> 3
    [] c = "4" -> 4 [] c = "5" -> 5 [] c = "6" -> 6 [] c = "7" -> 7
    [] c = "8" -> 8 [] c = "9" -> 9

\* Code point of the first character of a token; it orders the tokens as
\* Python orders the strings they stand for.
CharCode(c) ==
  CASE c = " " -> 32 [] c = "-" -> 45 [] c = "." -> 46
    [] c \in AsciiDigits -> 48 + DigitVal(c)
    [] c = ArabicIndicOne -> 1633
    [] c = "alpha" -> 97 [] c = "beta" -> 98 [] c = "gamma" -> 103
    [] c = "rc" -> 114 [] c = "stable" -> 115 [] c = "v" -> 118
    [] OTHER -> 122

\* s < t for Python str
StrLess(s, t) ==
  \E i \in 1..(Len(s) + 1) :
    /\ i <= Len(t)
    /\ \A j \in 1..(i - 1) : s[j] = t[j]
    /\ \/ i = Len(s) + 1
       \/ CharCode(s[i]) < CharCode(t[i])

\* str.startswith
StartsWith(s, prefix) ==
  /\ Len(prefix) <= Len(s)
  /\ SubSeq(s, 1, Len(prefix)) = prefix

\* int() of a string of digits
RECURSIVE IntOf(_)
IntOf(ds) ==
  IF ds = <<>> THEN 0
  ELSE 10 * IntOf(SubSeq(ds, 1, Len(ds) - 1)) + DigitVal(ds[Len(ds)])

IsDigits(s) == Len(s) > 0 /\ \A i \in 1..Len(s) : s[i] \in Digits

\* Positions of token c in s
Positions(s, c) == {i \in 1..Len(s) : s[i] = c}

\* The pattern \d+\.\d+\.\d+
IsVersionText(s) ==
  /\ \A i \in 1..Len(s) : s[i] \in Digits \cup {"."}
  /\ Cardinality(Positions(s, ".")) = 2
  /\ LET dots == Positions(s, ".")
         d1 == CHOOSE i \in dots : \A j \in dots : i <= j
         d2 == CHOOSE i \in dots : \A j \in dots : j <= i
     IN  /\ d1 > 1
         /\ d2 > d1 + 1
         /\ d2 < Len(s)

---------------------------------------------------------------------------
(* Tag grammar *)

STAGE_SEQUENCE == <<"alpha", "beta", "rc", "stable">>

PreStages == {"alpha", "beta", "rc"}

\* None
None == -1

\* A ranking that leaves the stable stage unranked
STAGE_RANK_StableUnranked(stage) ==
  IF \E i \in 1..3 : STAGE_SEQUENCE[i] = stage
  THEN CHOOSE i \in 1..3 : STAGE_SEQUENCE[i] = stage
  ELSE 0

\* lines 18-19
STAGE_RANK(stage) ==
  IF \E i \in 1..Len(STAGE_SEQUENCE) : STAGE_SEQUENCE[i] = stage
  THEN CHOOSE i \in 1..Len(STAGE_SEQUENCE) : STAGE_SEQUENCE[i] = stage
  ELSE 0

STABLE_TAG_RE(tag) ==
  /\ Len(tag) > 1
  /\ tag[1] = "v"
  /\ IsVersionText(SubSeq(tag, 2, Len(tag)))

PRERELEASE_TAG_RE(tag) ==
  /\ Len(tag) > 1
  /\ tag[1] = "v"
  /\ Positions(tag, "-") # {}
  /\ LET dash == CHOOSE i \in Positions(tag, "-") : \A j \in Positions(tag, "-") : i <= j
     IN  /\ IsVersionText(SubSeq(tag, 2, dash - 1))
         /\ Len(tag) >= dash + 3
         /\ tag[dash + 1] \in PreStages
         /\ tag[dash + 2] = "."
         /\ IsDigits(SubSeq(tag, dash + 3, Len(tag)))

ValueError == [ok |-> FALSE]

parse_tag(tag) ==
  IF STABLE_TAG_RE(tag)
  THEN [ok |-> TRUE, version |-> SubSeq(tag, 2, Len(tag)), stage |-> "stable",
        number |-> None]
  ELSE IF PRERELEASE_TAG_RE(tag)
  THEN LET dash == CHOOSE i \in Positions(tag, "-") : \A j \in Positions(tag, "-") : i <= j
       IN  [ok |-> TRUE, version |-> SubSeq(tag, 2, dash - 1), stage |-> tag[dash + 1],
            number |-> IntOf(SubSeq(tag, dash + 3, Len(tag)))]
  ELSE ValueError

---------------------------------------------------------------------------
(* Policy documents: JSON values *)

JNull == [t |-> "null"]
JNum(n) == [t |-> "num", n |-> n]
JStr(s) == [t |-> "str", s |-> s]
JList(items) == [t |-> "list", items |-> items]
JObj(keys, vals) == [t |-> "obj", keys |-> keys, vals |-> vals]

\* The one-word string
W(word) == <<word>>

\* dict.get(key): None when the key is absent
Get(obj, key) ==
  IF \E i \in 1..Len(obj.keys) : obj.keys[i] = key
  THEN obj.vals[CHOOSE i \in 1..Len(obj.keys) : obj.keys[i] = key]
  ELSE JNull

KeySet(obj) == {obj.keys[i] : i \in 1..Len(obj.keys)}

\* str.strip()
RECURSIVE LStrip(_)
LStrip(s) == IF s # <<>> /\ Head(s) = " " THEN LStrip(Tail(s)) ELSE s

RECURSIVE RStrip(_)
RStrip(s) ==
  IF s # <<>> /\ s[Len(s)] = " " THEN RStrip(SubSeq(s, 1, Len(s) - 1)) ELSE s

Strip(s) == RStrip(LStrip(s))

\* sorted() of a set of strings
RECURSIVE SortedStrs(_)
SortedStrs(S) ==
  IF S = {} THEN <<>>
  ELSE LET m == CHOOSE x \in S : \A y \in S \ {x} : StrLess(x, y)
       IN  <<m>> \o SortedStrs(S \ {m})

\* A violation message: its wording (kind), the stage it names and the
\* names it quotes
Violation(kind, stage, info) == [kind |-> kind, stage |-> stage, info |-> info]

IsValidName(item) == item.t = "str" /\ Strip(item.s) # <<>>

\* lines 61-66: the loop over stage_order_raw
RECURSIVE NormalizeOrder(_)
NormalizeOrder(items) ==
  IF items = <<>> THEN [order |-> <<>>, violations |-> <<>>]
  ELSE LET rest == NormalizeOrder(Tail(items))
       IN  IF ~IsValidName(Head(items))
           THEN [order |-> rest.order,
                 violations |-> <<Violation("stage_order_invalid_entry", "", <<>>)>>
                                \o rest.violations]
           ELSE [order |-> <<Strip(Head(items).s)>> \o rest.order,
                 violations |-> rest.violations]

CanonicalOrderStrs == [i \in 1..Len(STAGE_SEQUENCE) |-> W(STAGE_SEQUENCE[i])]

\* StageOrderViolations that passes over the entries that are not names
StageOrderViolationsOfNamesOnly(policy) ==
  LET raw == Get(policy, W("stage_order"))
  IN  IF raw.t # "list"
      THEN <<Violation("stage_order_not_array", "", <<>>)>>
      ELSE IF NormalizeOrder(raw.items).order # CanonicalOrderStrs
      THEN <<Violation("stage_order_not_exact", "", <<>>)>>
      ELSE <<>>

\* lines 58-70
StageOrderViolations(policy) ==
  LET raw == Get(policy, W("stage_order"))
  IN  IF raw.t # "list"
      THEN <<Violation("stage_order_not_array", "", <<>>)>>
      ELSE LET n == NormalizeOrder(raw.items)
           IN  n.violations \o
               (IF n.order # CanonicalOrderStrs
                THEN <<Violation("stage_order_not_exact", "", <<>>)>>
                ELSE <<>>)

\* lines 56-72: the copy of STAGE_SEQUENCE, replaced by the normalized
\* list only when that list equals STAGE_SEQUENCE
StageOrderOf(policy) ==
  LET raw == Get(policy, W("stage_order"))
      normalized_order == NormalizeOrder(raw.items).order
  IN  IF raw.t = "list" /\ normalized_order = CanonicalOrderStrs
      THEN [i \in 1..Len(normalized_order) |-> normalized_order[i][1]]
      ELSE STAGE_SEQUENCE

\* line 74
expected_previous(stage_order) ==
  [stage \in {stage_order[i] : i \in 2..Len(stage_order)} |->
     stage_order[(CHOOSE i \in 2..Len(stage_order) : stage_order[i] = stage) - 1]]

\* lines 81-86
RECURSIVE PreviousMismatch(_, _, _)
PreviousMismatch(raw, stage_order, idx) ==
  IF idx > Len(stage_order) THEN <<>>
  ELSE LET stage == stage_order[idx]
           expected == expected_previous(stage_order)[stage]
           configured == Get(raw, W(stage))
       IN  (IF configured # JStr(W(expected))
            THEN <<Violation("required_previous_mismatch", stage, <<W(expected)>>)>>
            ELSE <<>>)
           \o PreviousMismatch(raw, stage_order, idx + 1)

RequiredPreviousViolations(policy) ==
  LET given == Get(policy, W("required_previous_stage"))
      notObj == given.t # "obj"
      raw == IF notObj THEN JObj(<<>>, <<>>) ELSE given
      stage_order == StageOrderOf(policy)
      extra_previous ==
        SortedStrs(KeySet(raw)
                   \ {W(s) : s \in DOMAIN expected_previous(stage_order)})
  IN  (IF notObj THEN <<Violation("required_previous_not_object", "", <<>>)>> ELSE <<>>)
      \o PreviousMismatch(raw, stage_order, 2)
      \o (IF extra_previous # <<>>
          THEN <<Violation("required_previous_unknown_keys", "", extra_previous)>>
          ELSE <<>>)

\* lines 107-122: the loop over one stage's checks_raw
RECURSIVE ScanChecks(_, _, _)
ScanChecks(stage, items, seen) ==
  IF items = <<>> THEN [checks |-> <<>>, violations |-> <<>>]
  ELSE IF ~IsValidName(Head(items))
  THEN LET rest == ScanChecks(stage, Tail(items), seen)
       IN  [checks |-> rest.checks,
            violations |-> <<Violation("required_checks_invalid_name", stage, <<>>)>>
                           \o rest.violations]
  ELSE LET check_name == Strip(Head(items).s)
       IN  IF check_name \in seen
           THEN LET rest == ScanChecks(stage, Tail(items), seen)
                IN  [checks |-> rest.checks,
                     violations |-> <<Violation("required_checks_duplicate", stage,
                                                <<check_name>>)>>
                                    \o rest.violations]
           ELSE LET rest == ScanChecks(stage, Tail(items), seen \cup {check_name})
                IN  [checks |-> <<check_name>> \o rest.checks,
                     violations |-> rest.violations]

\* StageChecks that lets an empty list through
StageChecksEmptyAllowed(raw, stage) ==
  LET checks_raw == Get(raw, W(stage))
  IN  IF checks_raw.t # "list"
      THEN [checks |-> <<>>,
            violations |-> <<Violation("required_checks_empty", stage, <<>>)>>]
      ELSE ScanChecks(stage, checks_raw.items, {})

\* lines 100-123
StageChecks(raw, stage) ==
  LET checks_raw == Get(raw, W(stage))
  IN  IF checks_raw.t # "list" \/ checks_raw.items = <<>>
      THEN [checks |-> <<>>,
            violations |-> <<Violation("required_checks_empty", stage, <<>>)>>]
      ELSE ScanChecks(stage, checks_raw.items, {})

RECURSIVE ChecksViolations(_, _, _)
ChecksViolations(raw, stage_order, idx) ==
  IF idx > Len(stage_order) THEN <<>>
  ELSE StageChecks(raw, stage_order[idx]).violations
       \o ChecksViolations(raw, stage_order, idx + 1)

RequiredChecksRaw(policy) ==
  LET given == Get(policy, W("required_checks"))
  IN  IF given.t # "obj" THEN JObj(<<>>, <<>>) ELSE given

RequiredChecksViolations(policy) ==
  LET raw == RequiredChecksRaw(policy)
      stage_order == StageOrderOf(policy)
      extra_check_stages ==
        SortedStrs(KeySet(raw)
                   \ {W(stage_order[i]) : i \in 1..Len(stage_order)})
  IN  (IF Get(policy, W("required_checks")).t # "obj"
       THEN <<Violation("required_checks_not_object", "", <<>>)>> ELSE <<>>)
      \o ChecksViolations(raw, stage_order, 1)
      \o (IF extra_check_stages # <<>>
          THEN <<Violation("required_checks_unknown_keys", "", extra_check_stages)>>
          ELSE <<>>)

\* The mapping as the document's required_previous_stage gives it
required_previous_AsConfigured(policy) ==
  LET given == Get(policy, W("required_previous_stage"))
      raw == IF given.t # "obj" THEN JObj(<<>>, <<>>) ELSE given
      named == {k \in KeySet(raw) : Get(raw, k).t = "str"}
  IN  [stage \in {k[1] : k \in named} |-> Get(raw, W(stage)).s[1]]

\* line 75: the mapping that is returned is a copy of expected_previous
required_previous(policy) == expected_previous(StageOrderOf(policy))

\* policy is a JSON object here; any other value has no .get (see main)
parse_stage_policy(policy) ==
  LET stage_order == StageOrderOf(policy)
      required_checks_raw == RequiredChecksRaw(policy)
  IN  [stage_order |-> stage_order,
       required_previous |-> required_previous(policy),
       required_checks |->
         [stage \in {stage_order[i] : i \in 1..Len(stage_order)} |->
            StageChecks(required_checks_raw, stage).checks],
       violations |-> StageOrderViolations(policy)
                      \o RequiredPreviousViolations(policy)
                      \o RequiredChecksViolations(policy)]

---------------------------------------------------------------------------
(* Version timeline *)

NoTag == <<>>
NoStage == ""

\* None, as the result of highest_stage_entry
NoEntry == [tag |-> NoTag, stage |-> NoStage, stage_number |-> None, rank |-> 0]

stage_sort_key(stage, stage_number) ==
  <<STAGE_RANK(stage), IF stage_number = None THEN 0 ELSE stage_number>>

\* Python's order on tuples (int, int)
KeyLess(a, b) == a[1] < b[1] \/ (a[1] = b[1] /\ a[2] < b[2])

EntryKey(item) == stage_sort_key(item.stage, item.stage_number)

\* max(entries, key=...): the first of the entries with the greatest key
RECURSIVE MaxByKey(_, _)
MaxByKey(entries, best) ==
  IF entries = <<>> THEN best
  ELSE MaxByKey(Tail(entries),
                IF KeyLess(EntryKey(best), EntryKey(Head(entries)))
                THEN Head(entries) ELSE best)

highest_stage_entry(entries) ==
  IF entries = <<>> THEN NoEntry ELSE MaxByKey(Tail(entries), Head(entries))

\* Python's order on the keys (rank, number, tag) of entries.sort
SortKeyLess(a, b) ==
  \/ KeyLess(EntryKey(a), EntryKey(b))
  \/ (EntryKey(a) = EntryKey(b) /\ StrLess(a.tag, b.tag))

\* entries.sort is stable: an entry goes after the entries that are not
\* greater than it
RECURSIVE InsertSorted(_, _)
InsertSorted(sorted, e) ==
  IF sorted = <<>> THEN <<e>>
  ELSE IF SortKeyLess(e, Head(sorted)) THEN <<e>> \o sorted
  ELSE <<Head(sorted)>> \o InsertSorted(Tail(sorted), e)

RECURSIVE SortEntries(_, _)
SortEntries(entries, sorted) ==
  IF entries = <<>> THEN sorted
  ELSE SortEntries(Tail(entries), InsertSorted(sorted, Head(entries)))

\* lines 151-164: the tags that parse, as entries, in the order given
RECURSIVE CollectEntries(_)
CollectEntries(tags) ==
  IF tags = <<>> THEN <<>>
  ELSE LET parsed == parse_tag(Head(tags))
       IN  (IF parsed.ok
            THEN <<[tag |-> Head(tags), stage |-> parsed.stage,
                    stage_number |-> parsed.number, rank |-> STAGE_RANK(parsed.stage)]>>
            ELSE <<>>)
           \o CollectEntries(Tail(tags))

parse_stage_entries(tags) == SortEntries(CollectEntries(tags), <<>>)

TagsOf(entries) == [i \in 1..Len(entries) |-> entries[i].tag]

---------------------------------------------------------------------------
(* Repository gateway *)

\* git tag --list "v<version>*": the tags whose name starts with v<version>,
\* in the order of their names
GitTagList(tags, version) ==
  SortedStrs({t \in tags : StartsWith(t, <<"v">> \o version)})

Quote == "\""

\* lines 382-386: the text between the first two quotes of the first line
\* that starts with `version = `; found = FALSE when there is no such line,
\* IndexError when that line has no quote
RECURSIVE ScanCargo(_)
ScanCargo(lines) ==
  IF lines = <<>> THEN [found |-> FALSE, IndexError |-> FALSE, value |-> <<>>]
  ELSE LET line == Strip(Head(lines))
       IN  IF StartsWith(line, <<"version = ">>)
           THEN LET q == Positions(line, Quote)
                IN  IF q = {}
                    THEN [found |-> TRUE, IndexError |-> TRUE, value |-> <<>>]
                    ELSE LET q1 == CHOOSE i \in q : \A j \in q : i <= j
                             later == q \ {q1}
                             q2 == IF later = {} THEN Len(line) + 1
                                   ELSE CHOOSE i \in later : \A j \in later : i <= j
                         IN  [found |-> TRUE, IndexError |-> FALSE,
                              value |-> SubSeq(line, q1 + 1, q2 - 1)]
           ELSE ScanCargo(Tail(lines))

---------------------------------------------------------------------------
(* main *)

NoReport == [written |-> FALSE]

\* An uncaught exception: the interpreter prints the traceback and exits 1
Crash(git_calls) ==
  [exit |-> 1, json_written |-> FALSE, md_written |-> FALSE,
   git_calls |-> git_calls, report |-> NoReport]

\* same_stage_numbers[-1] of the sorted list
LastSorted(numbers) ==
  CHOOSE n \in {numbers[i] : i \in 1..Len(numbers)} :
    \A i \in 1..Len(numbers) : numbers[i] <= n

\* TransitionOutcome without the initial_stage branch
TransitionOutcomeInitialKept(transition_type, violations) ==
  IF violations # <<>>
  THEN CASE transition_type = "promotion" -> "promotion_blocked"
         [] transition_type = "stage_iteration" -> "stage_iteration_blocked"
         [] OTHER -> transition_type
  ELSE transition_type

\* lines 395-402
TransitionOutcome(transition_type, violations) ==
  IF violations # <<>>
  THEN CASE transition_type = "promotion" -> "promotion_blocked"
         [] transition_type = "stage_iteration" -> "stage_iteration_blocked"
         [] transition_type = "initial_stage" -> "initial_stage_blocked"
         [] OTHER -> transition_type
  ELSE transition_type

\* TransitionType with the two rank comparisons exchanged
TransitionTypeSwapped(highest_sibling_entry, current_rank) ==
  IF highest_sibling_entry # NoEntry
  THEN IF highest_sibling_entry.rank < current_rank THEN "demotion_blocked"
       ELSE IF highest_sibling_entry.rank > current_rank THEN "promotion"
       ELSE "stage_iteration"
  ELSE "initial_stage"

\* A regression test that never refuses
StageRegressionNever(sibling_stages, highest_sibling_rank, current_rank) == FALSE

\* The stage regression test: some sibling is listed and the highest
\* listed stage ranks above the candidate's
StageRegression(sibling_stages, highest_sibling_rank, current_rank) ==
  sibling_stages # <<>> /\ highest_sibling_rank > current_rank

\* lines 362-370
TransitionType(highest_sibling_entry, current_rank) ==
  IF highest_sibling_entry # NoEntry
  THEN IF highest_sibling_entry.rank > current_rank THEN "demotion_blocked"
       ELSE IF highest_sibling_entry.rank < current_rank THEN "promotion"
       ELSE "stage_iteration"
  ELSE "initial_stage"

\* MonotonicViolated that lets every number through
MonotonicViolatedNever(stage_number, same_stage_numbers) == FALSE

\* MonotonicViolated with < in place of <=
MonotonicViolatedStrict(stage_number, same_stage_numbers) ==
  /\ stage_number # None
  /\ same_stage_numbers # <<>>
  /\ stage_number < LastSorted(same_stage_numbers)

\* MonotonicViolated that refuses only a number already in use
MonotonicViolatedEqualOnly(stage_number, same_stage_numbers) ==
  /\ stage_number # None
  /\ same_stage_numbers # <<>>
  /\ stage_number = LastSorted(same_stage_numbers)

\* line 336
MonotonicViolated(stage_number, same_stage_numbers) ==
  /\ stage_number # None
  /\ same_stage_numbers # <<>>
  /\ stage_number <= LastSorted(same_stage_numbers)

\* ReadyToPublish without the mode
ReadyToPublishAnyMode(mode, violations) == violations = <<>>

\* line 428
ReadyToPublish(mode, violations) == mode = "publish" /\ violations = <<>>

\* ExitCode without the flag
ExitCodeAlways(fail_on_violation, violations) ==
  IF violations # <<>> THEN 3 ELSE 0

\* lines 465-470
ExitCode(fail_on_violation, violations) ==
  IF fail_on_violation /\ violations # <<>> THEN 3 ELSE 0

\* Refresh that turns a failed fetch into a violation
RefreshBlocking(fetch_ok, violations, warnings) ==
  [violations |-> IF fetch_ok THEN violations
                  ELSE Append(violations, Violation("fetch_failed", "", <<>>)),
   warnings |-> warnings]

\* lines 291-294: a failed refresh of origin is a warning
Refresh(fetch_ok, violations, warnings) ==
  [violations |-> violations,
   warnings |-> IF fetch_ok THEN warnings ELSE Append(warnings, "fetch_failed")]

\* ResolveViolations that does not test the ancestry
ResolveViolationsNoAncestry(tag, resolved, is_ancestor) ==
  IF ~resolved THEN <<Violation("unresolved_tag", "", <<tag>>)>> ELSE <<>>

\* lines 296-313: the tag must resolve to a commit, and the commit must be
\* reachable from origin/main
ResolveViolations(tag, resolved, is_ancestor) ==
  (IF ~resolved THEN <<Violation("unresolved_tag", "", <<tag>>)>> ELSE <<>>)
  \o (IF resolved /\ ~is_ancestor
      THEN <<Violation("not_reachable", "", <<tag>>)>> ELSE <<>>)

\* lines 315-463, once the tag list has been read
Evaluate(args, git, parsed_policy, parsed, all_version_tags, calls) ==
  LET version == parsed.version
      stage == parsed.stage
      stage_number == parsed.number
      tag_sha == IF git.rev_parse THEN "sha" ELSE ""
      required_prev == parsed_policy.required_previous
      refreshed == Refresh(git.fetch, parsed_policy.violations, <<>>)
      warnings0 == refreshed.warnings
      violations1 ==
        refreshed.violations
        \o ResolveViolations(args.tag, git.rev_parse, git.is_ancestor)
      parsed_entries == parse_stage_entries(all_version_tags)
      NotCandidate(entry) == entry.tag # args.tag
      sibling_entries == SelectSeq(parsed_entries, NotCandidate)
      sibling_tags == TagsOf(sibling_entries)
      sibling_stages == [i \in 1..Len(sibling_entries) |-> sibling_entries[i].stage]
      SameStage(entry) == entry.stage = stage
      same_stage_entries == SelectSeq(sibling_entries, SameStage)
      HasNumber(entry) == entry.stage_number # None
      same_stage_numbers ==
        LET numbered == SelectSeq(same_stage_entries, HasNumber)
        IN  [i \in 1..Len(numbered) |-> numbered[i].stage_number]
      same_stage_latest_entry == highest_stage_entry(same_stage_entries)
      violations2 ==
        violations1
        \o (IF MonotonicViolated(stage_number, same_stage_numbers)
            THEN <<Violation("monotonic", stage, <<>>)>> ELSE <<>>)
      prerequisite_stage ==
        IF stage \in DOMAIN required_prev THEN required_prev[stage] ELSE NoStage
      IsPrerequisite(entry) == entry.stage = prerequisite_stage
      prerequisite_entry ==
        IF prerequisite_stage # NoStage
        THEN highest_stage_entry(SelectSeq(sibling_entries, IsPrerequisite))
        ELSE NoEntry
      prerequisite_tag == prerequisite_entry.tag
      violations3 ==
        violations2
        \o (IF prerequisite_stage # NoStage /\ prerequisite_tag = NoTag
            THEN <<Violation("missing_prerequisite", stage, <<W(prerequisite_stage)>>)>>
            ELSE <<>>)
      highest_sibling_entry == highest_stage_entry(sibling_entries)
      highest_sibling_rank == highest_sibling_entry.rank
      current_rank == STAGE_RANK(stage)
      transition_type == TransitionType(highest_sibling_entry, current_rank)
      violations4 ==
        violations3
        \o (IF StageRegression(sibling_stages, highest_sibling_rank, current_rank)
            THEN <<Violation("stage_regression", stage, <<>>)>> ELSE <<>>)
      show_called == git.rev_parse
      show_failed == show_called /\ git.show.t = "error"
      cargo == IF show_called /\ ~show_failed THEN ScanCargo(git.show.lines)
               ELSE [found |-> FALSE, IndexError |-> FALSE, value |-> <<>>]
      cargo_version == cargo.value
      violations ==
        violations4
        \o (IF show_failed THEN <<Violation("cargo_inspect_failed", "", <<args.tag>>)>>
            ELSE <<>>)
        \o (IF cargo_version # <<>> /\ cargo_version # version
            THEN <<Violation("cargo_version_mismatch", "", <<cargo_version>>)>>
            ELSE <<>>)
      calls_end == calls \o (IF show_called THEN <<"show">> ELSE <<>>)
      stage_order == parsed_policy.stage_order
      latest_entry == highest_stage_entry(parsed_entries)
      report ==
        [written |-> TRUE,
         stage_order |-> stage_order,
         tag |-> args.tag,
         tag_sha |-> tag_sha,
         version |-> version,
         stage |-> stage,
         stage_number |-> stage_number,
         mode |-> args.mode,
         ready_to_publish |-> ReadyToPublish(args.mode, violations),
         required_checks |->
           IF stage \in DOMAIN parsed_policy.required_checks
           THEN parsed_policy.required_checks[stage] ELSE <<>>,
         stage_gate_matrix |->
           [i \in 1..Len(stage_order) |->
              [stage |-> stage_order[i],
               required_previous_stage |->
                 IF stage_order[i] \in DOMAIN required_prev
                 THEN required_prev[stage_order[i]] ELSE NoStage,
               required_checks |->
                 IF stage_order[i] \in DOMAIN parsed_policy.required_checks
                 THEN parsed_policy.required_checks[stage_order[i]] ELSE <<>>]],
         sibling_tags |-> sibling_tags,
         transition |->
           [type |-> transition_type,
            outcome |-> TransitionOutcome(transition_type, violations),
            required_previous_stage |-> prerequisite_stage,
            required_previous_tag |-> prerequisite_tag,
            previous_highest_stage |-> highest_sibling_entry.stage,
            previous_highest_tag |-> highest_sibling_entry.tag,
            same_stage_latest_tag |-> same_stage_latest_entry.tag,
            same_stage_latest_number |-> same_stage_latest_entry.stage_number],
         stage_history |->
           [version |-> version,
            known_tags |-> TagsOf(parsed_entries),
            per_stage |->
              [s \in {stage_order[i] : i \in 1..Len(stage_order)} |->
                 LET OfStage(entry) == entry.stage = s
                 IN  TagsOf(SelectSeq(parsed_entries, OfStage))],
            timeline |-> parsed_entries,
            latest_stage |-> latest_entry.stage,
            latest_tag |-> latest_entry.tag],
         warnings |-> warnings0,
         violations |-> violations]
  IN  IF cargo.IndexError THEN Crash(calls_end)
      ELSE [exit |-> ExitCode(args.fail_on_violation, violations),
            json_written |-> TRUE, md_written |-> TRUE,
            git_calls |-> calls_end, report |-> report]

\* args: tag, mode, fail_on_violation.  policy_file: the parsed JSON of
\* --stage-config-file, or t = "unreadable".  git: what each git command of
\* this invocation answers.  tags: the tags of the repository.
main(args, policy_file, git, tags) ==
  IF policy_file.t = "unreadable" THEN Crash(<<>>)      \* line 278 raises
  ELSE IF policy_file.t # "obj" THEN Crash(<<>>)        \* line 57: no .get
  ELSE
  LET parsed_policy == parse_stage_policy(policy_file)
      parsed == parse_tag(args.tag)
  IN  IF ~parsed.ok
      THEN [exit |-> 2, json_written |-> FALSE, md_written |-> FALSE,
            git_calls |-> <<>>, report |-> NoReport]
      ELSE
      LET calls == <<"fetch", "rev-parse">>
                   \o (IF git.rev_parse THEN <<"merge-base">> ELSE <<>>)
                   \o <<"tag-list">>
      IN  IF ~git.tag_list THEN Crash(calls)            \* line 315 raises
          ELSE Evaluate(args, git, parsed_policy, parsed,
                        GitTagList(tags, parsed.version), calls)

---------------------------------------------------------------------------
(* The inputs of the model *)

\* The most tags the repository holds
MaxTags == 2

\* The most tags published through the guard
MaxPublished == 4

VersionA == <<"0", ".", "2", ".", "1">>
VersionB == <<"0", ".", "2", ".", "1", "0">>

PreTag(version, stage, digits) == <<"v">> \o version \o <<"-", stage, ".">> \o digits
StableTag(version) == <<"v">> \o version

\* Tags of version 0.2.1, one pair with the same number written two ways,
\* tags of version 0.2.10, and a tag no grammar accepts
TagUniverse ==
  { PreTag(VersionA, "alpha", <<"1">>), PreTag(VersionA, "alpha", <<"2">>),
    PreTag(VersionA, "beta", <<"1">>),
    PreTag(VersionA, "rc", <<"1">>), PreTag(VersionA, "rc", <<"0", "1">>),
    StableTag(VersionA),
    PreTag(VersionB, "alpha", <<"1">>), StableTag(VersionB),
    PreTag(VersionA, "gamma", <<"1">>) }

Unreadable == [t |-> "unreadable"]

GoodPolicy ==
  JObj(<<W("stage_order"), W("required_previous_stage"), W("required_checks")>>,
       << JList(<<JStr(W("alpha")), JStr(W("beta")), JStr(W("rc")), JStr(W("stable"))>>),
          JObj(<<W("beta"), W("rc"), W("stable")>>,
               <<JStr(W("alpha")), JStr(W("beta")), JStr(W("rc"))>>),
          JObj(<<W("alpha"), W("beta"), W("rc"), W("stable")>>,
               << JList(<<JStr(W("ci"))>>), JList(<<JStr(W("ci"))>>),
                  JList(<<JStr(W("ci")), JStr(W("nightly"))>>),
                  JList(<<JStr(W("ci")), JStr(W("nightly"))>>) >>) >>)

\* stage_order without rc, and a required_previous_stage that lets rc
\* follow alpha and stable follow anything
LaxPolicy ==
  JObj(<<W("stage_order"), W("required_previous_stage"), W("required_checks")>>,
       << JList(<<JStr(W("alpha")), JStr(W("beta")), JStr(W("stable"))>>),
          JObj(<<W("beta"), W("rc")>>, <<JStr(W("alpha")), JStr(W("alpha"))>>),
          JObj(<<W("alpha"), W("beta"), W("rc"), W("stable")>>,
               << JList(<<JStr(W("ci"))>>), JList(<<JStr(W("ci"))>>),
                  JList(<<JStr(W("ci"))>>), JList(<<JStr(W("ci"))>>) >>) >>)

PolicyFiles == {Unreadable, JList(<<>>), GoodPolicy, LaxPolicy}

CargoToml(version_line) ==
  [t |-> "text", lines |-> <<<<"[package]">>, version_line>>]

Manifests ==
  { [t |-> "error"],
    CargoToml(<<"version = ", Quote>> \o VersionA \o <<Quote>>),
    CargoToml(<<"version.workspace = true">>),
    CargoToml(<<"version = ", "1">>) }

Args == [tag : TagUniverse, mode : {"dry-run", "publish"}, fail_on_violation : BOOLEAN]

\* What git answers in one invocation.  A tag that is not in the repository
\* does not resolve; a command that main does not reach has no answer to
\* choose.
GitAnswers(args, policy_file, tags) ==
  { g \in [fetch : BOOLEAN, rev_parse : BOOLEAN, is_ancestor : BOOLEAN,
           tag_list : BOOLEAN, show : Manifests] :
      /\ g.rev_parse => args.tag \in tags
      /\ ~g.rev_parse => (~g.is_ancestor /\ g.show.t = "error")
      /\ ~g.tag_list => g.show.t = "error"
      /\ (policy_file.t # "obj" \/ ~parse_tag(args.tag).ok) =>
           (~g.fetch /\ ~g.rev_parse /\ ~g.tag_list) }

NoRun == [started |-> FALSE]

NoInput == [t |-> "none"]
NoOutput == [returned |-> FALSE, raised |-> FALSE]

---------------------------------------------------------------------------
(* The state machine *)

Init ==
  /\ repoTags = {}
  /\ published = <<>>
  /\ candidate = NoTag
  /\ pc = "idle"
  /\ run = NoRun
  /\ input = NoInput
  /\ output = NoOutput
  /\ workflows = <<>>

\* A tag is pushed to the repository
CreateTag ==
  /\ pc = "idle"
  /\ Cardinality(repoTags) < MaxTags
  /\ \E t \in TagUniverse \ repoTags : repoTags' = repoTags \cup {t}
  /\ UNCHANGED <<published, candidate, pc, run, input, output, workflows>>

\* One invocation of the script, on any command line, policy file and
\* answers of git
Main ==
  /\ pc = "idle"
  /\ pc' = "exited"
  /\ \E args \in Args, policy_file \in PolicyFiles :
       \E git \in GitAnswers(args, policy_file, repoTags) :
         run' = [started |-> TRUE, args |-> args, policy_file |-> policy_file,
                 git |-> git, result |-> main(args, policy_file, git, repoTags)]
  /\ UNCHANGED <<repoTags, published, candidate, input, output, workflows>>

\* The process is gone; the next invocation starts from nothing
Exit ==
  /\ pc = "exited"
  /\ pc' = "idle"
  /\ run' = NoRun
  /\ UNCHANGED <<repoTags, published, candidate, input, output, workflows>>

Next == CreateTag \/ Main \/ Exit

Spec == Init /\ [][Next]_vars

---------------------------------------------------------------------------
(* Publication gated by the guard *)

\* A new tag is pushed for release
Push ==
  /\ pc = "idle"
  /\ Len(published) < MaxPublished
  /\ \E t \in TagUniverse \ repoTags :
       /\ repoTags' = repoTags \cup {t}
       /\ candidate' = t
  /\ pc' = "pushed"
  /\ UNCHANGED <<published, run, input, output, workflows>>

\* The release workflow runs the script for the pushed tag
Guard ==
  /\ pc = "pushed"
  /\ pc' = "exited"
  /\ \E args \in Args, policy_file \in PolicyFiles :
       /\ args.tag = candidate
       /\ \E git \in GitAnswers(args, policy_file, repoTags) :
            run' = [started |-> TRUE, args |-> args, policy_file |-> policy_file,
                    git |-> git, result |-> main(args, policy_file, git, repoTags)]
  /\ UNCHANGED <<repoTags, published, candidate, input, output, workflows>>

Passed == run.started /\ run.result.json_written /\ run.result.report.violations = <<>>

\* The report has no violations: the tag is published
Release ==
  /\ pc = "exited"
  /\ Passed
  /\ published' = Append(published, candidate)
  /\ candidate' = NoTag
  /\ pc' = "idle"
  /\ run' = NoRun
  /\ UNCHANGED <<repoTags, input, output, workflows>>

\* No report, or a report with violations: the tag is withdrawn
Withdraw ==
  /\ pc = "exited"
  /\ ~Passed
  /\ repoTags' = repoTags \ {candidate}
  /\ candidate' = NoTag
  /\ pc' = "idle"
  /\ run' = NoRun
  /\ UNCHANGED <<published, input, output, workflows>>

PubNext == Push \/ Guard \/ Release \/ Withdraw

PubSpec == Init /\ [][PubNext]_vars

---------------------------------------------------------------------------
(* What the properties speak of *)

\* The invocation reached the end of main and wrote both reports
Written == run.started /\ run.result.json_written /\ run.result.md_written

Report == run.result.report

HasViolation(kind) ==
  \E i \in 1..Len(Report.violations) : Report.violations[i].kind = kind

\* The candidate, by the tag grammar
Cand == parse_tag(run.args.tag)

\* The sibling tags of the glossary: the other tags of the repository that
\* have the candidate's version
Siblings ==
  {t \in repoTags \ {run.args.tag} :
     parse_tag(t).ok /\ parse_tag(t).version = Cand.version}

RankOf(t) == STAGE_RANK(parse_tag(t).stage)

HigherSiblingExists == \E s \in Siblings : RankOf(s) > STAGE_RANK(Cand.stage)

\* C1: whenever a sibling of the candidate has a higher stage rank than the
\* candidate, the report classifies the transition as demotion_blocked,
\* with outcome demotion_blocked, a stage-regression violation and
\* ready_to_publish false, whatever the policy document holds.
C1_DemotionAlwaysBlocked ==
  (Written /\ HigherSiblingExists) =>
    /\ Report.transition.type = "demotion_blocked"
    /\ Report.transition.outcome = "demotion_blocked"
    /\ HasViolation("stage_regression")
    /\ Report.ready_to_publish = FALSE

\* A demotion judged in publish mode under the policy document that asks
\* for less than the canonical chain
C1_Witness ==
  /\ Written
  /\ HigherSiblingExists
  /\ run.policy_file = LaxPolicy
  /\ run.args.mode = "publish"
  /\ Report.transition.type = "demotion_blocked"

SameStageNotLower ==
  /\ Cand.number # None
  /\ \E s \in Siblings :
       /\ parse_tag(s).stage = Cand.stage
       /\ parse_tag(s).number >= Cand.number

\* C2: when a sibling of the candidate's own stage has a sequence number
\* not lower than the candidate's, the report holds the "must increase
\* monotonically" violation, whatever the transition type is.
C2_MonotonicNumbering ==
  (Written /\ SameStageNotLower) => HasViolation("monotonic")

\* The monotonicity violation together with the demotion violation
C2_Witness ==
  /\ Written
  /\ SameStageNotLower
  /\ Report.transition.type = "demotion_blocked"
  /\ HasViolation("monotonic")
  /\ HasViolation("stage_regression")

\* C3: in the order of publication through the guard, the sequence numbers
\* of the tags of one version and one stage strictly increase.
C3_PublishedNumbersIncrease ==
  \A i, j \in 1..Len(published) :
    (/\ i < j
     /\ parse_tag(published[i]).version = parse_tag(published[j]).version
     /\ parse_tag(published[i]).stage = parse_tag(published[j]).stage
     /\ parse_tag(published[i]).number # None)
    => parse_tag(published[i]).number < parse_tag(published[j]).number

\* Two tags of one version and stage have been published, one after the other
C3_Witness ==
  \E i, j \in 1..Len(published) :
    /\ i < j
    /\ parse_tag(published[i]).version = parse_tag(published[j]).version
    /\ parse_tag(published[i]).stage = parse_tag(published[j]).stage
    /\ parse_tag(published[i]).number # None

\* The canonical prerequisite of a stage: beta needs alpha, rc needs beta,
\* stable needs rc
CanonicalPrerequisite(stage) ==
  CASE stage = "beta" -> "alpha" [] stage = "rc" -> "beta"
    [] stage = "stable" -> "rc" [] OTHER -> NoStage

PrerequisiteMissing ==
  /\ CanonicalPrerequisite(Cand.stage) # NoStage
  /\ ~\E s \in Siblings : parse_tag(s).stage = CanonicalPrerequisite(Cand.stage)

\* C4: when the candidate's stage has a prerequisite stage and no sibling
\* lies in exactly that stage, the report holds a violation naming the
\* missing prerequisite stage and ready_to_publish is false.
C4_PrerequisiteRequired ==
  (Written /\ PrerequisiteMissing) =>
    /\ \E i \in 1..Len(Report.violations) :
         /\ Report.violations[i].kind = "missing_prerequisite"
         /\ Report.violations[i].info = <<W(CanonicalPrerequisite(Cand.stage))>>
    /\ Report.ready_to_publish = FALSE

\* The transition type as a function of the candidate and its siblings
ExpectedType ==
  IF Siblings = {} THEN "initial_stage"
  ELSE LET top == CHOOSE s \in Siblings : \A u \in Siblings : RankOf(u) <= RankOf(s)
       IN  IF STAGE_RANK(Cand.stage) > RankOf(top) THEN "promotion"
           ELSE IF STAGE_RANK(Cand.stage) = RankOf(top) THEN "stage_iteration"
           ELSE "demotion_blocked"

\* C5: the transition type is initial_stage exactly when the candidate has
\* no sibling, and otherwise promotion, stage_iteration or demotion_blocked
\* as the candidate's rank is above, equal to or below the highest
\* sibling's rank.
C5_TransitionTypeTotal == Written => Report.transition.type = ExpectedType

Blocked(type) ==
  CASE type = "initial_stage" -> "initial_stage_blocked"
    [] type = "promotion" -> "promotion_blocked"
    [] type = "stage_iteration" -> "stage_iteration_blocked"
    [] type = "demotion_blocked" -> "demotion_blocked"

\* C6: in every report the outcome is the type when there is no violation,
\* and otherwise the type with _blocked appended, demotion_blocked staying
\* as it is.
C6_OutcomeFollowsViolations ==
  Written =>
    Report.transition.outcome =
      IF Report.violations = <<>> THEN Report.transition.type
      ELSE Blocked(Report.transition.type)

\* A first tag of its version whose only violation comes from the manifest,
\* the last check of main
C6_Witness ==
  /\ Written
  /\ Report.violations # <<>>
  /\ \A i \in 1..Len(Report.violations) :
       Report.violations[i].kind = "cargo_version_mismatch"
  /\ Report.transition.type = "initial_stage"
  /\ Report.transition.outcome = "initial_stage_blocked"

\* C7: in every report ready_to_publish is true if and only if the mode is
\* publish and the violations list is empty.
C7_ReadyIffPublishAndClean ==
  Written =>
    (Report.ready_to_publish = TRUE
       <=> (run.args.mode = "publish" /\ Report.violations = <<>>))

\* A report that is ready to publish
C7_Witness ==
  /\ Written
  /\ Report.ready_to_publish = TRUE
  /\ Report.mode = "publish"

\* C8: once the report is written the exit code is 3 when the
\* fail-on-violation flag is set and there are violations, and 0 otherwise;
\* the mode plays no part.
C8_ExitCode ==
  Written =>
    run.result.exit =
      IF run.args.fail_on_violation /\ Report.violations # <<>> THEN 3 ELSE 0

\* A dry-run with violations and the flag set, which exits 3
C8_Witness ==
  /\ Written
  /\ run.args.mode = "dry-run"
  /\ run.args.fail_on_violation
  /\ Report.violations # <<>>
  /\ run.result.exit = 3

\* C9: a candidate tag that neither grammar accepts makes the invocation
\* exit 2 with no report written and no git command issued.
C9_MalformedTagAborts ==
  (run.started /\ ~Cand.ok) =>
    /\ run.result.exit = 2
    /\ ~run.result.json_written
    /\ ~run.result.md_written
    /\ run.result.git_calls = <<>>

\* C10: a policy document that cannot be read or parsed makes the
\* invocation exit, with no report written, with the exit code of a
\* malformed candidate tag.
C10_UnreadablePolicyAborts ==
  (run.started /\ run.policy_file = Unreadable) =>
    /\ run.result.exit = 2
    /\ ~run.result.json_written
    /\ ~run.result.md_written

\* The invocation got past the policy document and the candidate tag
Evaluating == run.started /\ run.policy_file.t = "obj" /\ Cand.ok

HasWarning(w) == \E i \in 1..Len(Report.warnings) : Report.warnings[i] = w

\* C11: when the candidate tag and the policy document parse, the
\* invocation does not crash whichever git commands fail: both reports are
\* written and each failure is in the report, the fetch as a warning, the
\* tag resolution, the ancestry test, the tag listing and the manifest
\* read as violations.
C11_QueryFailuresRecorded ==
  Evaluating =>
    /\ run.result.exit \in {0, 3}
    /\ Written
    /\ ~run.git.fetch => HasWarning("fetch_failed")
    /\ ~run.git.rev_parse => HasViolation("unresolved_tag")
    /\ (run.git.rev_parse /\ ~run.git.is_ancestor) => HasViolation("not_reachable")
    /\ ~run.git.tag_list => Report.violations # <<>>
    /\ (run.git.tag_list /\ run.git.show.t = "error")
         => HasViolation("cargo_inspect_failed")

---------------------------------------------------------------------------
(* The policy document, loaded and used *)

Absent == [t |-> "absent"]

\* The JSON object that holds the three fields, those that are present
PolicyDocument(stage_order, required_previous_stage, required_checks) ==
  LET fields == << <<W("stage_order"), stage_order>>,
                   <<W("required_previous_stage"), required_previous_stage>>,
                   <<W("required_checks"), required_checks>> >>
      Present(f) == f[2] # Absent
      present == SelectSeq(fields, Present)
  IN  JObj([i \in 1..Len(present) |-> present[i][1]],
           [i \in 1..Len(present) |-> present[i][2]])

\* The JSON array of the one-word strings
Names(words) == JList([i \in 1..Len(words) |-> JStr(W(words[i]))])

\* The JSON object of the one-word keys
Keyed(words, vals) == JObj([i \in 1..Len(words) |-> W(words[i])], vals)

\* stage_order: absent, null, not a list, canonical, canonical with blanks
\* around the names, rc left out, permuted, with one more stage, with a
\* number among the names, with a blank string among the names, empty
StageOrders ==
  { Absent, JNull, JStr(W("alpha")),
    Names(<<"alpha", "beta", "rc", "stable">>),
    JList(<<JStr(<<" ", "alpha">>), JStr(<<"beta", " ">>), JStr(W("rc")),
            JStr(<<" ", "stable", " ">>)>>),
    Names(<<"alpha", "beta", "stable">>),
    Names(<<"beta", "alpha", "rc", "stable">>),
    Names(<<"alpha", "beta", "rc", "stable", "gamma">>),
    JList(<<JStr(W("alpha")), JStr(W("beta")), JNum(3), JStr(W("rc")),
            JStr(W("stable"))>>),
    JList(<<JStr(W("alpha")), JStr(W("beta")), JStr(W("rc")),
            JStr(W("stable")), JStr(<<" ">>)>>),
    JList(<<>>) }

\* required_previous_stage: absent, not an object, canonical, with a key
\* for alpha, with a key for an unknown stage, with both, rc after alpha
\* and stable left out, a number for a stage name
RequiredPreviousStages ==
  { Absent, JList(<<>>),
    Keyed(<<"beta", "rc", "stable">>,
          <<JStr(W("alpha")), JStr(W("beta")), JStr(W("rc"))>>),
    Keyed(<<"alpha", "beta", "rc", "stable">>,
          <<JNull, JStr(W("alpha")), JStr(W("beta")), JStr(W("rc"))>>),
    Keyed(<<"beta", "rc", "stable", "gamma">>,
          <<JStr(W("alpha")), JStr(W("beta")), JStr(W("rc")), JStr(W("stable"))>>),
    Keyed(<<"gamma", "alpha", "beta", "rc", "stable">>,
          <<JStr(W("stable")), JStr(W("alpha")), JStr(W("alpha")),
            JStr(W("beta")), JStr(W("rc"))>>),
    Keyed(<<"beta", "rc">>, <<JStr(W("alpha")), JStr(W("alpha"))>>),
    Keyed(<<"beta", "rc", "stable">>,
          <<JNum(1), JStr(W("beta")), JStr(W("rc"))>>) }

\* required_checks: absent, not an object, complete, stable left out, an
\* empty list, a string for a list, a name given twice (once with a
\* blank), an empty name and a number among the names, a list of a number
\* only, a key for an unknown stage
RequiredChecks ==
  { Absent, JStr(W("ci")),
    Keyed(<<"alpha", "beta", "rc", "stable">>,
          <<Names(<<"ci">>), Names(<<"ci">>), Names(<<"ci", "nightly">>),
            Names(<<"ci", "nightly">>)>>),
    Keyed(<<"alpha", "beta", "rc">>,
          <<Names(<<"ci">>), Names(<<"ci">>), Names(<<"ci">>)>>),
    Keyed(<<"alpha", "beta", "rc", "stable">>,
          <<JList(<<>>), Names(<<"ci">>), Names(<<"ci">>), Names(<<"ci">>)>>),
    Keyed(<<"alpha", "beta", "rc", "stable">>,
          <<Names(<<"ci">>), JStr(W("ci")), Names(<<"ci">>), Names(<<"ci">>)>>),
    Keyed(<<"alpha", "beta", "rc", "stable">>,
          <<JList(<<JStr(W("ci")), JStr(<<" ", "ci">>), JStr(W("nightly")),
                    JStr(W("ci"))>>),
            Names(<<"ci">>), Names(<<"ci">>), Names(<<"ci">>)>>),
    Keyed(<<"alpha", "beta", "rc", "stable">>,
          <<Names(<<"ci">>), Names(<<"ci">>),
            JList(<<JStr(<<>>), JStr(W("ci")), JNum(3), JStr(<<" ">>)>>),
            Names(<<"ci">>)>>),
    Keyed(<<"alpha", "beta", "rc", "stable">>,
          <<Names(<<"ci">>), Names(<<"ci">>), Names(<<"ci">>), JList(<<JNum(3)>>)>>),
    Keyed(<<"alpha", "beta", "rc", "stable", "gamma">>,
          <<Names(<<"ci">>), Names(<<"ci">>), Names(<<"ci">>), Names(<<"ci">>),
            Names(<<"ci">>)>>) }

\* The parsed policy documents: objects of every combination of the
\* fields, and values that are not objects
PolicyDocuments ==
  { PolicyDocument(so, rp, rc) :
      so \in StageOrders, rp \in RequiredPreviousStages, rc \in RequiredChecks }
  \cup { JNull, JNum(3), JStr(W("alpha")), JList(<<>>) }

Raised == [returned |-> FALSE, raised |-> TRUE]
Returned(value) == [returned |-> TRUE, raised |-> FALSE, value |-> value]

\* The call of line 279: policy.get of line 57 raises AttributeError when
\* the document is not an object
LoadPolicy(policy) ==
  IF policy.t # "obj" THEN Raised ELSE Returned(parse_stage_policy(policy))

\* The candidate of the invocations that use the document
PolicyCandidate == PreTag(VersionA, "alpha", <<"1">>)

PolicyInit ==
  /\ input \in PolicyDocuments
  /\ output = NoOutput
  /\ repoTags = {PolicyCandidate}
  /\ published = <<>>
  /\ candidate = NoTag
  /\ pc = "idle"
  /\ run = NoRun
  /\ workflows = <<>>

\* main up to line 279: the policy document goes through parse_stage_policy
Load ==
  /\ pc = "idle"
  /\ pc' = "loaded"
  /\ output' = LoadPolicy(input)
  /\ UNCHANGED <<repoTags, published, candidate, run, input, workflows>>

\* The rest of main, with the tag in place and on main
Finish ==
  /\ pc = "loaded"
  /\ pc' = "exited"
  /\ \E args \in Args :
       /\ args.tag = PolicyCandidate
       /\ \E git \in GitAnswers(args, input, repoTags) :
            /\ input.t = "obj" => (git.fetch /\ git.rev_parse /\ git.is_ancestor)
            /\ run' = [started |-> TRUE, args |-> args, policy_file |-> input,
                        git |-> git, result |-> main(args, input, git, repoTags)]
  /\ UNCHANGED <<repoTags, published, candidate, input, output, workflows>>

PolicyNext == Load \/ Finish

PolicySpec == PolicyInit /\ [][PolicyNext]_vars

\* C12: parse_stage_policy returns for every parsed policy document,
\* whatever its top level and the types of its fields: it does not raise,
\* and every stage has its neutral values in what is returned.
C12_LoadNeverRaises ==
  pc # "idle" =>
    /\ ~output.raised
    /\ output.returned
    /\ output.value.stage_order = STAGE_SEQUENCE
    /\ DOMAIN output.value.required_checks
         = {STAGE_SEQUENCE[i] : i \in 1..Len(STAGE_SEQUENCE)}

\* The violations that speak of stage_order
StageOrderFlagged(violations) ==
  \E i \in 1..Len(violations) :
    violations[i].kind \in {"stage_order_not_array", "stage_order_invalid_entry",
                            "stage_order_not_exact"}

\* stage_order is there, is a list, and its entries, trimmed, are the
\* canonical sequence
StageOrderIsCanonical(policy) ==
  LET raw == Get(policy, W("stage_order"))
  IN  /\ raw.t = "list"
      /\ Len(raw.items) = Len(STAGE_SEQUENCE)
      /\ \A i \in 1..Len(raw.items) :
           /\ raw.items[i].t = "str"
           /\ Strip(raw.items[i].s) = W(STAGE_SEQUENCE[i])

\* C13: for every policy object parse_stage_policy returns the canonical
\* stage order, and reports a violation about stage_order exactly when the
\* field is absent, not a list, or differs, entries trimmed, from the
\* canonical sequence; the report's stage_order and stage_gate_matrix hold
\* the four canonical stages in order, and the report is written whenever
\* it is written under the complete policy.
C13_StageOrderCanonical ==
  /\ output.returned =>
       /\ output.value.stage_order = STAGE_SEQUENCE
       /\ StageOrderFlagged(output.value.violations) <=> ~StageOrderIsCanonical(input)
  /\ (run.started /\ output.returned) =>
       run.result.json_written
         = main(run.args, GoodPolicy, run.git, repoTags).json_written
  /\ Written =>
       /\ Report.stage_order = STAGE_SEQUENCE
       /\ [i \in 1..Len(Report.stage_gate_matrix) |-> Report.stage_gate_matrix[i].stage]
            = STAGE_SEQUENCE
       /\ StageOrderFlagged(Report.violations) <=> ~StageOrderIsCanonical(input)

\* The policy whose stage_order is alpha, beta, stable: the report is
\* written, with the violation and with the canonical order
C13_Witness ==
  /\ Written
  /\ Get(input, W("stage_order")) = Names(<<"alpha", "beta", "stable">>)
  /\ StageOrderFlagged(Report.violations)
  /\ Report.stage_order = STAGE_SEQUENCE
  /\ Len(Report.stage_gate_matrix) = 4

\* The canonical stage set, as keys
CanonicalStageKeys == {W(STAGE_SEQUENCE[i]) : i \in 1..Len(STAGE_SEQUENCE)}

\* The required_previous_stage object of the document; none when the
\* field is absent or not an object
RequiredPreviousGiven(policy) ==
  IF Get(policy, W("required_previous_stage")).t = "obj"
  THEN Get(policy, W("required_previous_stage")) ELSE JObj(<<>>, <<>>)

\* The keys that the violations report as unknown keys of the field
FlaggedKeys(violations, kind) ==
  UNION { {violations[i].info[j] : j \in 1..Len(violations[i].info)} :
            i \in {k \in 1..Len(violations) : violations[k].kind = kind} }

\* C14: parse_stage_policy reports a violation for every stage other than
\* the first whose required_previous_stage entry is not its canonical
\* predecessor, and reports as unknown keys of required_previous_stage
\* exactly the keys outside {alpha, beta, rc, stable}.
C14_PreviousStageChecked ==
  output.returned =>
    /\ \A i \in 2..Len(STAGE_SEQUENCE) :
         Get(RequiredPreviousGiven(input), W(STAGE_SEQUENCE[i]))
           # JStr(W(STAGE_SEQUENCE[i - 1]))
         => \E k \in 1..Len(output.value.violations) :
              /\ output.value.violations[k].kind = "required_previous_mismatch"
              /\ output.value.violations[k].stage = STAGE_SEQUENCE[i]
    /\ FlaggedKeys(output.value.violations, "required_previous_unknown_keys")
         = KeySet(RequiredPreviousGiven(input)) \ CanonicalStageKeys

\* The entries of a check list that are not names, or that repeat, once
\* trimmed, a name found earlier in the list
BadEntries(items) ==
  { i \in 1..Len(items) :
      \/ items[i].t # "str"
      \/ Strip(items[i].s) = <<>>
      \/ \E j \in 1..(i - 1) :
           items[j].t = "str" /\ Strip(items[j].s) = Strip(items[i].s) }

NoDuplicateNoEmpty(checks) ==
  /\ \A i \in 1..Len(checks) : checks[i] # <<>> /\ Strip(checks[i]) = checks[i]
  /\ \A i, j \in 1..Len(checks) : i # j => checks[i] # checks[j]

\* C15: for every policy object parse_stage_policy reports, for each
\* canonical stage whose required_checks entry is missing, not a list or
\* empty, a violation that names the stage; the check list it returns for
\* a stage has no duplicate and no empty name, with one violation for each
\* entry that is invalid or a duplicate; the keys of required_checks
\* outside the canonical stage set are reported; and the report echoes
\* the lists returned.
C15_RequiredChecksClean ==
  /\ output.returned =>
       /\ \A n \in 1..Len(STAGE_SEQUENCE) :
            LET stage == STAGE_SEQUENCE[n]
                checks_raw == Get(RequiredChecksRaw(input), W(stage))
                violations == output.value.violations
                Named(kinds) == {k \in 1..Len(violations) :
                                   /\ violations[k].kind \in kinds
                                   /\ violations[k].stage = stage}
            IN  /\ NoDuplicateNoEmpty(output.value.required_checks[stage])
                /\ IF checks_raw.t # "list" \/ checks_raw.items = <<>>
                   THEN /\ Named({"required_checks_empty"}) # {}
                        /\ output.value.required_checks[stage] = <<>>
                   ELSE /\ Cardinality(Named({"required_checks_invalid_name",
                                              "required_checks_duplicate"}))
                             = Cardinality(BadEntries(checks_raw.items))
                        /\ Len(output.value.required_checks[stage])
                             = Len(checks_raw.items)
                               - Cardinality(BadEntries(checks_raw.items))
       /\ FlaggedKeys(output.value.violations, "required_checks_unknown_keys")
            = KeySet(RequiredChecksRaw(input)) \ CanonicalStageKeys
  /\ (Written /\ output.returned) =>
       /\ Report.required_checks = output.value.required_checks[Cand.stage]
       /\ \A i \in 1..Len(Report.stage_gate_matrix) :
            Report.stage_gate_matrix[i].required_checks
              = output.value.required_checks[STAGE_SEQUENCE[i]]

\* The candidate's stage lists ci, ci with a blank, nightly, ci: the
\* report holds ci and nightly and the two duplicate violations
C15_Witness ==
  /\ Written
  /\ Get(RequiredChecksRaw(input), W(Cand.stage)).t = "list"
  /\ Len(Get(RequiredChecksRaw(input), W(Cand.stage)).items) = 4
  /\ Report.required_checks = <<W("ci"), W("nightly")>>
  /\ Cardinality({k \in 1..Len(Report.violations) :
                    Report.violations[k].kind = "required_checks_duplicate"}) = 2

---------------------------------------------------------------------------
(* The tag grammar, applied and rendered back *)

\* Version texts with and without leading zeros, one with a digit outside
\* ASCII
VersionTexts ==
  { major \o <<".">> \o minor \o <<".">> \o patch :
      major \in {<<"0">>, <<"0", "0">>, <<"1">>},
      minor \in {<<"2">>, <<"0", "2">>},
      patch \in {<<"1">>, <<"1", "0">>, <<"0", "1">>, <<ArabicIndicOne>>} }

\* Sequence numbers: plain, with leading zeros, with a digit outside
\* ASCII, and none
SequenceTexts ==
  { <<"0">>, <<"1">>, <<"1", "0">>, <<"0", "1">>, <<"0", "0">>,
    <<ArabicIndicOne>>, <<>> }

\* The tag strings handed to parse_tag: of both grammars, of an unknown
\* stage, without a sequence number, without the leading v
TagTexts ==
  { StableTag(version) : version \in VersionTexts }
  \cup { PreTag(version, stage, digits) :
            version \in VersionTexts, stage \in PreStages \cup {"gamma"},
            digits \in SequenceTexts }
  \cup VersionTexts

\* str() of a non-negative int
RECURSIVE DecimalOf(_)
DecimalOf(n) ==
  LET DigitChar(d) == CHOOSE c \in AsciiDigits : DigitVal(c) = d
  IN  IF n < 10 THEN <<DigitChar(n)>>
      ELSE DecimalOf(n \div 10) \o <<DigitChar(n % 10)>>

\* The tag string of a parsed (version, stage, sequence number)
Render(parsed) ==
  IF parsed.number = None THEN StableTag(parsed.version)
  ELSE PreTag(parsed.version, parsed.stage, DecimalOf(parsed.number))

TagInit ==
  /\ input \in TagTexts
  /\ output = NoOutput
  /\ repoTags = {}
  /\ published = <<>>
  /\ candidate = NoTag
  /\ pc = "idle"
  /\ run = NoRun
  /\ workflows = <<>>

\* parse_tag is called on the tag string
ParseTag ==
  /\ pc = "idle"
  /\ pc' = "parsed"
  /\ output' = IF parse_tag(input).ok THEN Returned(parse_tag(input)) ELSE Raised
  /\ UNCHANGED <<repoTags, published, candidate, run, input, workflows>>

TagNext == ParseTag

TagSpec == TagInit /\ [][TagNext]_vars

\* The text of the sequence number of a tag string: what follows the
\* stage and its dot
SequenceText(tag) ==
  LET dash == CHOOSE i \in Positions(tag, "-") : \A j \in Positions(tag, "-") : i <= j
  IN  SubSeq(tag, dash + 3, Len(tag))

\* A number written in ASCII digits with no leading zero
PlainNumber(ds) ==
  /\ ds # <<>>
  /\ \A i \in 1..Len(ds) : ds[i] \in AsciiDigits
  /\ Len(ds) > 1 => ds[1] # "0"

\* C16: for every tag string parse_tag accepts, rendering the parsed
\* version, stage and sequence number gives the tag string back: parsing
\* loses nothing, leading zeros of the numeric fields included.
C16_RoundTrip == output.returned => Render(output.value) = input

\* What is kept: the tag string comes back when the sequence number is
\* written in ASCII digits without leading zeros, and for stable tags; in
\* every case the rendered string parses to the same triple
RoundTripPlainNumber ==
  output.returned =>
    /\ (Positions(input, "-") = {} \/ PlainNumber(SequenceText(input)))
         => Render(output.value) = input
    /\ parse_tag(Render(output.value)) = parse_tag(input)

---------------------------------------------------------------------------
(* The siblings the candidate is judged against *)

\* The tags the report holds as siblings, as known tags of the version
\* and in the timeline
ReportedTags ==
  {Report.sibling_tags[i] : i \in 1..Len(Report.sibling_tags)}
  \cup {Report.stage_history.known_tags[i] :
          i \in 1..Len(Report.stage_history.known_tags)}
  \cup {Report.stage_history.timeline[i].tag :
          i \in 1..Len(Report.stage_history.timeline)}

\* C17: every tag in the sibling list and in the timeline of a report has
\* the version of the candidate, and the tag the transition is classified
\* against has it too: a tag of another version never enters.
C17_SiblingsShareVersion ==
  Written =>
    /\ \A t \in ReportedTags : parse_tag(t).version = Cand.version
    /\ Report.transition.previous_highest_tag # NoTag
         => parse_tag(Report.transition.previous_highest_tag).version = Cand.version

\* The tags of the repository that have the candidate's version
OwnVersionTags == {t \in repoTags : parse_tag(t).ok => parse_tag(t).version = Cand.version}

\* C18: the tags of other versions in the repository when the candidate
\* is evaluated change nothing of its transition type, its violations
\* and its ready_to_publish: the report is the one the same invocation
\* gives in a repository holding the tags of the candidate's version only.
C18_OtherVersionsDoNotInterfere ==
  Written =>
    LET alone == main(run.args, run.policy_file, run.git, OwnVersionTags)
    IN  /\ alone.json_written
        /\ alone.report.transition.type = Report.transition.type
        /\ alone.report.violations = Report.violations
        /\ alone.report.ready_to_publish = Report.ready_to_publish

---------------------------------------------------------------------------
(* Release workflows of one version, side by side *)

Workflows == {"first", "second"}

\* The tags the workflows push, all of one version
RaceTags ==
  { PreTag(VersionA, "alpha", <<"1">>), PreTag(VersionA, "alpha", <<"2">>),
    PreTag(VersionA, "beta", <<"1">>), PreTag(VersionA, "rc", <<"1">>) }

\* The invocation of a workflow: publish mode, the complete policy, the
\* tag on main with the manifest of its version
RaceArgs(tag) == [tag |-> tag, mode |-> "publish", fail_on_violation |-> TRUE]

RaceGit ==
  [fetch |-> TRUE, rev_parse |-> TRUE, is_ancestor |-> TRUE, tag_list |-> TRUE,
   show |-> CargoToml(<<"version = ", Quote>> \o VersionA \o <<Quote>>)]

NotStarted == [pc |-> "idle", candidate |-> NoTag, seen |-> {}, ready |-> FALSE]

RaceInit ==
  /\ repoTags = {}
  /\ published = <<>>
  /\ workflows = [w \in Workflows |-> NotStarted]
  /\ candidate = NoTag
  /\ pc = "idle"
  /\ run = NoRun
  /\ input = NoInput
  /\ output = NoOutput

\* A tag is pushed and starts a workflow
RacePush(w) ==
  /\ workflows[w].pc = "idle"
  /\ \E t \in RaceTags \ repoTags :
       /\ repoTags' = repoTags \cup {t}
       /\ workflows' = [workflows EXCEPT ![w] = [pc |-> "pushed", candidate |-> t,
                                                   seen |-> {}, ready |-> FALSE]]
  /\ UNCHANGED <<published, candidate, pc, run, input, output>>

\* The workflow runs the script: main reads the tags there are at that
\* moment, and nothing else of the other workflow
RaceGuard(w) ==
  /\ workflows[w].pc = "pushed"
  /\ LET result == main(RaceArgs(workflows[w].candidate), GoodPolicy, RaceGit, repoTags)
     IN  workflows' = [workflows EXCEPT
                         ![w].pc = "judged",
                         ![w].seen = repoTags,
                         ![w].ready = result.json_written
                                      /\ result.report.ready_to_publish]
  /\ UNCHANGED <<repoTags, published, candidate, pc, run, input, output>>

\* Reported ready: the tag is published
RaceRelease(w) ==
  /\ workflows[w].pc = "judged"
  /\ workflows[w].ready
  /\ published' = Append(published, workflows[w].candidate)
  /\ workflows' = [workflows EXCEPT ![w].pc = "released"]
  /\ UNCHANGED <<repoTags, candidate, pc, run, input, output>>

\* Reported not ready: the tag is withdrawn
RaceWithdraw(w) ==
  /\ workflows[w].pc = "judged"
  /\ ~workflows[w].ready
  /\ repoTags' = repoTags \ {workflows[w].candidate}
  /\ workflows' = [workflows EXCEPT ![w].pc = "withdrawn"]
  /\ UNCHANGED <<published, candidate, pc, run, input, output>>

RaceNext ==
  \E w \in Workflows :
    RacePush(w) \/ RaceGuard(w) \/ RaceRelease(w) \/ RaceWithdraw(w)

RaceSpec == RaceInit /\ [][RaceNext]_vars

\* The later tag is a demotion, or a sequence number that does not
\* increase, relative to the earlier tag of the same version
Regresses(later, earlier) ==
  /\ parse_tag(later).version = parse_tag(earlier).version
  /\ \/ RankOf(later) < RankOf(earlier)
     \/ /\ parse_tag(later).stage = parse_tag(earlier).stage
        /\ parse_tag(later).number # None
        /\ parse_tag(later).number <= parse_tag(earlier).number

\* C19: a workflow is reported ready on the tags its own evaluation saw
\* and on nothing else, there being no exclusion between the evaluations
\* of one version: a candidate reported ready regresses relative to no
\* tag that it saw, while the tags published in the meantime go unseen.
C19_ReadyRestsOnTagsSeen ==
  \A w \in Workflows :
    (workflows # <<>> /\ workflows[w].ready) =>
      \A t \in workflows[w].seen \ {workflows[w].candidate} :
        ~Regresses(workflows[w].candidate, t)

\* Both candidates were reported ready and are published, and the second
\* published regresses relative to the first, which its evaluation did
\* not see
C19_Witness ==
  /\ workflows # <<>>
  /\ \A w \in Workflows : workflows[w].pc = "released" /\ workflows[w].ready
  /\ Len(published) = 2
  /\ Regresses(published[2], published[1])
  /\ \E w \in Workflows :
       /\ workflows[w].candidate = published[2]
       /\ published[1] \notin workflows[w].seen

---------------------------------------------------------------------------
(* Warnings *)

\* The invocation that differs from this one only in that its fetch
\* fails
FetchFailing ==
  main(run.args, run.policy_file, [run.git EXCEPT !.fetch = FALSE], repoTags)

\* C20: two invocations that differ only in whether the fetch failed exit
\* with the same code and write the same violations, transition outcome
\* and ready_to_publish; they differ in the warnings only.
C20_WarningsDoNotGate ==
  (Evaluating /\ run.git.fetch) =>
    LET other == FetchFailing
    IN  /\ other.exit = run.result.exit
        /\ other.json_written = run.result.json_written
        /\ Written =>
             /\ other.report.violations = Report.violations
             /\ other.report.transition.outcome = Report.transition.outcome
             /\ other.report.ready_to_publish = Report.ready_to_publish
             /\ Report.warnings = <<>>
             /\ other.report.warnings = <<"fetch_failed">>

\* A report that is ready to publish, and stays so, with the warning,
\* when the fetch fails
C20_Witness ==
  /\ Written
  /\ run.git.fetch
  /\ Report.ready_to_publish = TRUE
  /\ run.result.exit = 0
  /\ FetchFailing.report.warnings # <<>>
  /\ FetchFailing.report.ready_to_publish = TRUE

---------------------------------------------------------------------------
(* The candidate's commit *)

\* C21: a candidate tag that does not resolve to a commit, or whose commit
\* is not an ancestor of origin/main, gets its violation and the run goes
\* on to the report as it does otherwise: ready_to_publish is true only
\* when the tag resolves and its commit is reachable from origin/main.
C21_TagOnMain ==
  /\ (Evaluating /\ run.git.tag_list /\ ~run.git.rev_parse) => Written
  /\ (Evaluating /\ run.git.rev_parse /\ ~run.git.is_ancestor) =>
       run.result.json_written
         = main(run.args, run.policy_file,
                [run.git EXCEPT !.is_ancestor = TRUE], repoTags).json_written
  /\ Written =>
       /\ ~run.git.rev_parse =>
            HasViolation("unresolved_tag") /\ Report.tag_sha = ""
       /\ (run.git.rev_parse /\ ~run.git.is_ancestor) => HasViolation("not_reachable")
       /\ Report.ready_to_publish = TRUE =>
            run.git.rev_parse /\ run.git.is_ancestor

\* A candidate in publish mode whose only violation is that its commit is
\* not on origin/main
C21_Witness ==
  /\ Written
  /\ run.args.mode = "publish"
  /\ run.git.rev_parse /\ ~run.git.is_ancestor
  /\ Len(Report.violations) = 1
  /\ HasViolation("not_reachable")
  /\ Report.ready_to_publish = FALSE

---------------------------------------------------------------------------
(* The manifest at the candidate's ref *)

\* The manifest could be read and declares this version
Declares(manifest, version) ==
  /\ manifest.t = "text"
  /\ \E i \in 1..Len(manifest.lines) :
       Strip(manifest.lines[i]) = <<"version = ", Quote>> \o version \o <<Quote>>

\* C22: a manifest at the candidate's ref that declares another version,
\* that cannot be read, or that declares no version that can be
\* determined, leaves a violation in the report: ready_to_publish is true
\* only if the manifest declares the version of the tag.
C22_ManifestVersionMatches ==
  Written =>
    /\ ~Declares(run.git.show, Cand.version) => Report.violations # <<>>
    /\ Report.ready_to_publish = TRUE => Declares(run.git.show, Cand.version)

---------------------------------------------------------------------------
(* scripts/ci/rollback_guard.py *)

NoRef == <<>>
NoSha == ""

\* The first reference of the list whose rev-parse succeeds; a reference
\* is [ref, sha, matches], sha = NoSha when rev-parse fails, matches
\* telling whether it passes the filter of the loop
RECURSIVE FirstResolved(_)
FirstResolved(refs) ==
  IF refs = <<>> THEN [found |-> FALSE]
  ELSE IF Head(refs).ref = NoRef \/ ~Head(refs).matches \/ Head(refs).sha = NoSha
  THEN FirstResolved(Tail(refs))
  ELSE [found |-> TRUE, ref |-> Head(refs).ref, sha |-> Head(refs).sha]

\* resolve_target_ref: the reference given, or the first tag of the
\* pattern in version order that resolves, or the first tag by creation
\* date that matches the pattern and resolves; RuntimeError when a git
\* command other than the rev-parse of a listed tag fails
resolve_target_ref(git, target_ref) ==
  IF target_ref # <<>>
  THEN IF git.rev_parse = NoSha THEN [raised |-> TRUE]
       ELSE [raised |-> FALSE, ref |-> target_ref, sha |-> git.rev_parse]
  ELSE IF git.tag_list.t = "error" THEN [raised |-> TRUE]
  ELSE IF FirstResolved(git.tag_list.refs).found
  THEN [raised |-> FALSE, ref |-> FirstResolved(git.tag_list.refs).ref,
        sha |-> FirstResolved(git.tag_list.refs).sha]
  ELSE IF git.for_each_ref.t = "error" THEN [raised |-> TRUE]
  ELSE IF FirstResolved(git.for_each_ref.refs).found
  THEN [raised |-> FALSE, ref |-> FirstResolved(git.for_each_ref.refs).ref,
        sha |-> FirstResolved(git.for_each_ref.refs).sha]
  ELSE [raised |-> FALSE, ref |-> NoRef, sha |-> NoSha]

\* AncestorResult that takes no account of the flag
AncestorResultFlagIgnored(returncode, allow_non_ancestor) ==
  IF returncode = 0
  THEN [ancestor_check |-> "pass", warnings |-> <<>>, violations |-> <<>>]
  ELSE IF returncode = 1
  THEN [ancestor_check |-> "fail", warnings |-> <<"not_ancestor">>, violations |-> <<>>]
  ELSE [ancestor_check |-> "error", warnings |-> <<>>,
        violations |-> <<"ancestor_error">>]

\* lines 146-167: what the return code of merge-base --is-ancestor gives
AncestorResult(returncode, allow_non_ancestor) ==
  IF returncode = 0
  THEN [ancestor_check |-> "pass", warnings |-> <<>>, violations |-> <<>>]
  ELSE IF returncode = 1
  THEN IF allow_non_ancestor
       THEN [ancestor_check |-> "fail", warnings |-> <<"not_ancestor">>,
             violations |-> <<>>]
       ELSE [ancestor_check |-> "fail", warnings |-> <<>>,
             violations |-> <<"not_ancestor">>]
  ELSE [ancestor_check |-> "error", warnings |-> <<>>,
        violations |-> <<"ancestor_error">>]

\* main of rollback_guard.py
rollback_main(args, git) ==
  IF git.head = NoSha
  THEN [exit |-> 2, written |-> FALSE]
  ELSE
  LET resolved == resolve_target_ref(git, Strip(args.target_ref))
      target_ref == IF resolved.raised THEN Strip(args.target_ref) ELSE resolved.ref
      target_sha == IF resolved.raised THEN NoSha ELSE resolved.sha
      violations1 ==
        (IF resolved.raised THEN <<"resolve_failed">> ELSE <<>>)
        \o (IF target_sha = NoSha THEN <<"target_unresolved">> ELSE <<>>)
      ancestry == IF target_sha # NoSha
                  THEN AncestorResult(git.merge_base, args.allow_non_ancestor)
                  ELSE [ancestor_check |-> "unknown", warnings |-> <<>>,
                        violations |-> <<>>]
      warnings ==
        ancestry.warnings
        \o (IF target_sha # NoSha /\ target_sha = git.head THEN <<"noop">> ELSE <<>>)
      violations == violations1 \o ancestry.violations
  IN  [exit |-> IF args.fail_on_violation /\ violations # <<>> THEN 3 ELSE 0,
       written |-> TRUE,
       mode |-> args.mode,
       target_ref |-> target_ref,
       target_sha |-> target_sha,
       current_head_sha |-> git.head,
       ancestor_check |-> ancestry.ancestor_check,
       allow_non_ancestor |-> args.allow_non_ancestor,
       ready_to_execute |-> (args.mode = "execute" /\ violations = <<>>),
       warnings |-> warnings,
       violations |-> violations]

RollbackArgs ==
  [mode : {"dry-run", "execute"}, target_ref : {<<>>, <<" ">>, W("v1")},
   allow_non_ancestor : BOOLEAN, fail_on_violation : BOOLEAN]

GitError == [t |-> "error"]
RefList(refs) == [t |-> "refs", refs |-> refs]
TagRef(ref, sha, matches) == [ref |-> ref, sha |-> sha, matches |-> matches]

\* What `git tag --list <pattern> --sort=-version:refname` answers
SortedTagLists ==
  { GitError, RefList(<<>>),
    RefList(<<TagRef(W("v2"), "old", TRUE)>>),
    RefList(<<TagRef(W("v2"), NoSha, TRUE), TagRef(W("v1"), "head", TRUE)>>),
    RefList(<<TagRef(NoRef, NoSha, TRUE), TagRef(W("v2"), NoSha, TRUE)>>) }

\* What `git for-each-ref refs/tags` answers, with what fnmatch says of
\* each name
CreatedTagLists ==
  { GitError, RefList(<<>>),
    RefList(<<TagRef(W("rel"), "side", FALSE), TagRef(W("v-old"), "side", TRUE)>>),
    RefList(<<TagRef(W("rel"), "side", FALSE)>>) }

\* What git answers in one invocation: the commit of HEAD, the commit of
\* the given reference, the two tag lists, the return code of merge-base.
\* A commit is an ancestor of itself; a command that is not reached has
\* no answer to choose.
RollbackGit(args) ==
  { g \in [head : {NoSha, "head"}, rev_parse : {NoSha, "head", "old"},
           tag_list : SortedTagLists, for_each_ref : CreatedTagLists,
           merge_base : {0, 1, 128}] :
      /\ g.head = NoSha =>
           (g.rev_parse = NoSha /\ g.tag_list = GitError
            /\ g.for_each_ref = GitError /\ g.merge_base = 0)
      /\ Strip(args.target_ref) # <<>> =>
           (g.tag_list = GitError /\ g.for_each_ref = GitError)
      /\ Strip(args.target_ref) = <<>> => g.rev_parse = NoSha
      /\ (g.tag_list # GitError /\ FirstResolved(g.tag_list.refs).found) =>
           g.for_each_ref = GitError
      /\ (g.head # NoSha /\ ~resolve_target_ref(g, Strip(args.target_ref)).raised
          /\ resolve_target_ref(g, Strip(args.target_ref)).sha = g.head)
           => g.merge_base # 1
      /\ (g.head # NoSha /\ (resolve_target_ref(g, Strip(args.target_ref)).raised
                              \/ resolve_target_ref(g, Strip(args.target_ref)).sha = NoSha))
           => g.merge_base = 0 }

RollbackInit ==
  /\ \E args \in RollbackArgs : \E git \in RollbackGit(args) :
       input = [args |-> args, git |-> git]
  /\ output = NoOutput
  /\ repoTags = {}
  /\ published = <<>>
  /\ candidate = NoTag
  /\ pc = "idle"
  /\ run = NoRun
  /\ workflows = <<>>

\* One invocation of rollback_guard.py
RollbackMain ==
  /\ pc = "idle"
  /\ pc' = "exited"
  /\ output' = Returned(rollback_main(input.args, input.git))
  /\ UNCHANGED <<repoTags, published, candidate, run, input, workflows>>

RollbackNext == RollbackMain

RollbackSpec == RollbackInit /\ [][RollbackNext]_vars

\* The plan of the invocation
Plan == output.value

\* The target resolved and merge-base said it is not an ancestor of HEAD
TargetNotAncestor ==
  /\ output.returned
  /\ Plan.written
  /\ Plan.target_sha # NoSha
  /\ input.git.merge_base = 1

InSeq(x, seq) == \E i \in 1..Len(seq) : seq[i] = x

\* C23: in every plan ready_to_execute is true exactly when the mode is
\* execute and there is no violation; when the target is not an ancestor
\* of the current head, ancestor_check is fail and the message is a
\* violation, or with the allow-non-ancestor flag a warning only, so that
\* the plan is ready exactly when the mode is execute and the flag is set.
C23_NonAncestorNeedsFlag ==
  /\ (output.returned /\ Plan.written) =>
       (Plan.ready_to_execute <=> (Plan.mode = "execute" /\ Plan.violations = <<>>))
  /\ TargetNotAncestor =>
       /\ Plan.ancestor_check = "fail"
       /\ IF input.args.allow_non_ancestor
          THEN InSeq("not_ancestor", Plan.warnings) /\ Plan.violations = <<>>
          ELSE Plan.violations = <<"not_ancestor">>
               /\ ~InSeq("not_ancestor", Plan.warnings)
       /\ Plan.ready_to_execute
            <=> (input.args.mode = "execute" /\ input.args.allow_non_ancestor)

\* A target that is not an ancestor, allowed by the flag, ready to execute
C23_Witness ==
  /\ TargetNotAncestor
  /\ input.args.allow_non_ancestor
  /\ Plan.ready_to_execute
  /\ Plan.warnings = <<"not_ancestor">>
  /\ Plan.exit = 0

---------------------------------------------------------------------------
(* scripts/ci/flake_retry_probe.py *)

\* str.lower(), on the words the probe is given (a word is one token)
LowerToken(c) ==
  CASE c \in {"FAILURE", "Failure"} -> "failure"
    [] c = "SUCCESS" -> "success"
    [] c \in {"TRUE", "True"} -> "true"
    [] c = "YES" -> "yes"
    [] c = "Y" -> "y"
    [] c = "ON" -> "on"
    [] OTHER -> c

Lower(s) == [i \in 1..Len(s) |-> LowerToken(s[i])]

\* lines 14-15
parse_bool(value) ==
  Lower(Strip(value)) \in {W("1"), W("true"), W("yes"), W("y"), W("on")}

\* Classification that takes every retry for a flake
ClassificationAlwaysFlake(retry_exit_code) == "flake_suspected"

\* lines 68-71: the retry passed, or failed again
Classification(retry_exit_code) ==
  IF retry_exit_code = 0 THEN "flake_suspected" ELSE "persistent_failure"

\* lines 92-94
ProbeExit(classification, block_on_flake) ==
  IF classification = "flake_suspected" /\ block_on_flake THEN 3 ELSE 0

InitialResults ==
  { W("failure"), W("FAILURE"), <<" ", "Failure", " ">>, W("success"), W("SUCCESS"),
    W("cancelled"), W("skipped"), <<>> }

BlockOnFlakeTexts ==
  { W("true"), W("True"), <<" ", "YES">>, W("1"), W("on"), W("y"),
    W("false"), W("0"), W("no"), <<>> }

\* What the retry command may exit with
RetryExitCodes == {0, 1, 2, 130}

\* The process before line 50
ProbeFresh ==
  [initial |-> <<>>, block_on_flake |-> FALSE, retry_runs |-> 0,
   retry_attempted |-> FALSE, retry_exit_code |-> None,
   classification |-> "not_applicable", written |-> FALSE, exit |-> None]

ProbeInit ==
  /\ \E initial_result \in InitialResults, block_on_flake \in BlockOnFlakeTexts :
       input = [initial_result |-> initial_result, block_on_flake |-> block_on_flake]
  /\ output = ProbeFresh
  /\ repoTags = {}
  /\ published = <<>>
  /\ candidate = NoTag
  /\ pc = "idle"
  /\ run = NoRun
  /\ workflows = <<>>

\* lines 50-66: the arguments are read; a failure goes to the retry
ProbeStart ==
  /\ pc = "idle"
  /\ LET initial == Lower(Strip(input.initial_result))
     IN  /\ output' = [output EXCEPT
                          !.initial = initial,
                          !.block_on_flake = parse_bool(input.block_on_flake),
                          !.retry_attempted = (initial = W("failure"))]
         /\ pc' = IF initial = W("failure") THEN "retrying" ELSE "reporting"
  /\ UNCHANGED <<repoTags, published, candidate, run, input, workflows>>

\* lines 67-71: the retry command runs and exits
ProbeRetry ==
  /\ pc = "retrying"
  /\ \E code \in RetryExitCodes :
       output' = [output EXCEPT
                    !.retry_runs = @ + 1,
                    !.retry_exit_code = code,
                    !.classification = Classification(code)]
  /\ pc' = "reporting"
  /\ UNCHANGED <<repoTags, published, candidate, run, input, workflows>>

\* lines 73-94: the reports are written and the process exits
ProbeReport ==
  /\ pc = "reporting"
  /\ output' = [output EXCEPT
                  !.written = TRUE,
                  !.exit = ProbeExit(output.classification, output.block_on_flake)]
  /\ pc' = "exited"
  /\ UNCHANGED <<repoTags, published, candidate, run, input, workflows>>

ProbeNext == ProbeStart \/ ProbeRetry \/ ProbeReport

ProbeSpec == ProbeInit /\ [][ProbeNext]_vars

\* The initial results that read failure, and the flag texts that read
\* true
FailureTexts == {W("failure"), W("FAILURE"), <<" ", "Failure", " ">>}
TruthyTexts == {W("true"), W("True"), <<" ", "YES">>, W("1"), W("on"), W("y")}

\* C24: the retry command runs at most once, and only after an initial
\* result of failure; at exit the classification is flake_suspected when
\* the retry exited 0, persistent_failure when it exited otherwise,
\* not_applicable when there was no retry, and the exit code is 3 exactly
\* when the classification is flake_suspected and block-on-flake is set,
\* and 0 otherwise.
C24_RetryOnceAndExit ==
  /\ output.retry_runs <= 1
  /\ output.retry_runs = 1 => input.initial_result \in FailureTexts
  /\ pc = "exited" =>
       /\ output.written
       /\ output.retry_runs = 1 <=> input.initial_result \in FailureTexts
       /\ output.retry_attempted <=> output.retry_runs = 1
       /\ output.classification =
            IF output.retry_runs = 0 THEN "not_applicable"
            ELSE IF output.retry_exit_code = 0 THEN "flake_suspected"
            ELSE "persistent_failure"
       /\ output.exit =
            IF output.classification = "flake_suspected"
               /\ input.block_on_flake \in TruthyTexts
            THEN 3 ELSE 0

\* A persistent failure with block-on-flake set, which exits 0
C24_Witness ==
  /\ pc = "exited"
  /\ output.retry_runs = 1
  /\ output.retry_exit_code = 2
  /\ output.classification = "persistent_failure"
  /\ output.block_on_flake
  /\ output.exit = 0

---------------------------------------------------------------------------
(* The highest entry *)

Last(seq) == seq[Len(seq)]

\* C25: the highest entry is the last element of the timeline, which is
\* sorted by rank, then sequence number, then tag string: among entries
\* of one rank and one sequence number it is the lexically greatest tag,
\* for latest_tag and for previous_highest_tag alike.
C25_HighestIsLastOfTimeline ==
  Written =>
    /\ Report.stage_history.timeline # <<>> =>
         Report.stage_history.latest_tag = Last(Report.stage_history.timeline).tag
    /\ Report.sibling_tags # <<>> =>
         Report.transition.previous_highest_tag = Last(Report.sibling_tags)

---------------------------------------------------------------------------
(* The prerequisite tag *)

\* The siblings in the prerequisite stage of the candidate
PrerequisiteSiblings ==
  {t \in Siblings : parse_tag(t).stage = CanonicalPrerequisite(Cand.stage)}

\* C26: for a candidate whose stage has a prerequisite stage,
\* required_previous_tag is the sibling of the greatest sequence number in
\* that stage, and it is absent exactly when the prerequisite violation
\* is present; sibling_tags is known_tags without the candidate, in the
\* same order.
C26_PrerequisiteTag ==
  (Written /\ CanonicalPrerequisite(Cand.stage) # NoStage) =>
    /\ Report.transition.required_previous_tag = NoTag
         <=> HasViolation("missing_prerequisite")
    /\ Report.transition.required_previous_tag # NoTag =>
         /\ Report.transition.required_previous_tag \in PrerequisiteSiblings
         /\ \A t \in PrerequisiteSiblings :
              parse_tag(t).number
                <= parse_tag(Report.transition.required_previous_tag).number
    /\ LET NotCandidate(t) == t # run.args.tag
       IN  Report.sibling_tags
             = SelectSeq(Report.stage_history.known_tags, NotCandidate)

---------------------------------------------------------------------------
(* Stage order of the published tags *)

\* C27: in the order of publication through the guard, starting from an
\* empty tag history, the stage rank of the published tags of one version
\* never decreases.
C27_PublishedRanksNeverDecrease ==
  \A i, j \in 1..Len(published) :
    (i < j /\ parse_tag(published[i]).version = parse_tag(published[j]).version)
    => RankOf(published[i]) <= RankOf(published[j])

\* A version has been taken through the guard from alpha up to stable
C27_Witness ==
  \E i, j, k \in 1..Len(published) :
    /\ i < j /\ j < k
    /\ parse_tag(published[i]).version = parse_tag(published[k]).version
    /\ parse_tag(published[j]).version = parse_tag(published[k]).version
    /\ RankOf(published[i]) < RankOf(published[j])
    /\ RankOf(published[j]) < RankOf(published[k])

---------------------------------------------------------------------------
(* The chain of stages *)

\* The published tags of one version
PublishedOf(version) ==
  {published[i] : i \in {k \in 1..Len(published) :
                           parse_tag(published[k]).version = version}}

\* Every stage below the stage of a tag of the set has a tag in the set
ChainComplete(tags) ==
  \A t \in tags :
    \A k \in 1..Len(STAGE_SEQUENCE) :
      k < RankOf(t) => \E u \in tags : RankOf(u) = k

\* C28: in every history of tags published through the guard, starting
\* from the empty history, every stage of a version that has a tag also
\* has a tag in every stage of lower rank: no stage of the chain alpha,
\* beta, rc, stable is skipped.
C28_NoStageSkipped ==
  \A i \in 1..Len(published) :
    ChainComplete(PublishedOf(parse_tag(published[i]).version))

---------------------------------------------------------------------------
(* After the stable release *)

\* The stable tag of the candidate's version exists and the candidate is
\* another tag of that version
StableReleased ==
  /\ run.started
  /\ Cand.ok
  /\ run.args.tag # StableTag(Cand.version)
  /\ StableTag(Cand.version) \in repoTags

\* C29: once the stable tag of a version exists, every evaluation of
\* another candidate tag of that version is classified demotion_blocked
\* with a stage-regression violation, and no such candidate is reported
\* ready_to_publish.
C29_StableIsAbsorbing ==
  StableReleased =>
    /\ Written =>
         /\ Report.transition.type = "demotion_blocked"
         /\ Report.transition.outcome = "demotion_blocked"
         /\ HasViolation("stage_regression")
    /\ ~(Written /\ Report.ready_to_publish)

\* An alpha tag evaluated in publish mode after the stable release, and
\* refused for the stable tag alone
C29_Witness ==
  /\ StableReleased
  /\ Written
  /\ run.args.mode = "publish"
  /\ Cand.stage = "alpha"
  /\ Report.transition.type = "demotion_blocked"
  /\ Report.violations = <<Violation("stage_regression", "alpha", <<>>)>>

---------------------------------------------------------------------------
(* Two runs under two policy documents *)

\* A required_previous_stage that asks beta of alpha, nothing of beta, and
\* alpha of rc and of stable
InvertedPrevious ==
  Keyed(<<"alpha", "rc", "stable">>,
        <<JStr(W("beta")), JStr(W("alpha")), JStr(W("alpha"))>>)

\* The complete policy, the lax one, one with the inverted mapping, and
\* the empty object
GatePolicies ==
  { GoodPolicy, LaxPolicy,
    PolicyDocument(Get(GoodPolicy, W("stage_order")), InvertedPrevious,
                   Get(GoodPolicy, W("required_checks"))),
    PolicyDocument(Absent, Absent, Absent) }

\* The command lines of the two runs: publish mode
GateArgs == {args \in Args : args.mode = "publish"}

\* git answers both runs alike: every command succeeds, a candidate that
\* is in the repository resolves to a commit of main whose manifest
\* declares version 0.2.1
GateGit(args, tags) ==
  { g \in GitAnswers(args, GoodPolicy, tags) :
      /\ g.fetch
      /\ g.tag_list
      /\ args.tag \in tags =>
           /\ g.rev_parse
           /\ g.is_ancestor
           /\ g.show = CargoToml(<<"version = ", Quote>> \o VersionA \o <<Quote>>) }

\* The first run
GateFirst ==
  /\ pc = "idle"
  /\ pc' = "first"
  /\ \E args \in GateArgs, policy_file \in GatePolicies :
       \E git \in GateGit(args, repoTags) :
         run' = [started |-> TRUE, args |-> args, policy_file |-> policy_file,
                 git |-> git, result |-> main(args, policy_file, git, repoTags)]
  /\ UNCHANGED <<repoTags, published, candidate, input, output, workflows>>

\* The second run: the same command line, tags and answers of git, under
\* another policy document
GateSecond ==
  /\ pc = "first"
  /\ pc' = "exited"
  /\ \E policy_file \in GatePolicies \ {run.policy_file} :
       /\ input' = policy_file
       /\ output' = main(run.args, policy_file, run.git, repoTags)
  /\ UNCHANGED <<repoTags, published, candidate, run, workflows>>

\* Both processes are gone
GateExit ==
  /\ pc = "exited"
  /\ pc' = "idle"
  /\ run' = NoRun
  /\ input' = NoInput
  /\ output' = NoOutput
  /\ UNCHANGED <<repoTags, published, candidate, workflows>>

GateNext == CreateTag \/ GateFirst \/ GateSecond \/ GateExit

GateSpec == Init /\ [][GateNext]_vars

\* The kinds of the violations that parse_stage_policy returns
PolicyDefectKinds ==
  { "stage_order_not_array", "stage_order_invalid_entry", "stage_order_not_exact",
    "required_previous_not_object", "required_previous_mismatch",
    "required_previous_unknown_keys",
    "required_checks_not_object", "required_checks_empty",
    "required_checks_invalid_name", "required_checks_duplicate",
    "required_checks_unknown_keys" }

\* The violations that are no policy defects, in their order
Gating(violations) ==
  LET NoDefect(v) == v.kind \notin PolicyDefectKinds
  IN  SelectSeq(violations, NoDefect)

\* The stage_gate_matrix without its required_checks
Prerequisites(matrix) ==
  [i \in 1..Len(matrix) |-> <<matrix[i].stage, matrix[i].required_previous_stage>>]

CanonicalMatrix ==
  << <<"alpha", NoStage>>, <<"beta", "alpha">>, <<"rc", "beta">>, <<"stable", "rc">> >>

\* The report without its policy-defect violations and without the
\* echoed required_checks
WithoutPolicyEcho(report) ==
  [report EXCEPT !.violations = Gating(@),
                 !.required_checks = <<>>,
                 !.stage_gate_matrix = Prerequisites(@)]

\* The report without what follows from the violations either: the
\* outcome and ready_to_publish
WithoutVerdict(report) ==
  [WithoutPolicyEcho(report) EXCEPT !.transition.outcome = "",
                                    !.ready_to_publish = FALSE]

BothRan == pc = "exited" /\ input # NoInput

====
